---- MODULE Spec2Model ----
(***************************************************************************)
(* Model of scripts/openai_token_usage.py: the authenticated fetch         *)
(* (admin_get, get_recent_completions_usage), the Markdown report          *)
(* formatter (printable_completions_usage) and the entry point (main).     *)
(*                                                                         *)
(* Text is modelled as a sequence of one-character strings, so that        *)
(* len(), slicing, ljust/rjust, str() and join() are computed and not      *)
(* assumed.  A JSON value that may be missing or null is a record          *)
(* [t |-> "absent" | "null" | <kind>, v |-> value].                        *)
(***************************************************************************)
EXTENDS Integers, Sequences, FiniteSets, TLC

VARIABLES
    pc,                \* position of the run
    entry,             \* which function the run entered through
    env_key,           \* os.getenv("OPENAI_ADMIN_KEY")
    past_days,         \* argument of get_recent_completions_usage
    debug,             \* argument of get_recent_completions_usage
    now,               \* datetime.now(tz=utc): [sec |-> epoch seconds, micro |-> microseconds]
    params,            \* query parameters built by get_recent_completions_usage
    requests,          \* HTTP GET requests issued so far
    body,              \* parsed JSON body of the response
    usage,             \* payload handed to the formatter
    max_model_length,  \* argument of printable_completions_usage
    rows,              \* the formatter's row tuples
    widths,            \* the formatter's column widths
    report,            \* the formatter's returned text
    stdout,            \* what was printed, in order
    log,               \* logger.error records, in order
    dir_exists,        \* whether the output directory exists
    file,              \* usage_report.md: [exists |-> BOOLEAN, content |-> text]
    file0,             \* usage_report.md as it was before the run
    error              \* the exception that ended the run, or "none"

vars == <<pc, entry, env_key, past_days, debug, now, params, requests, body, usage,
          max_model_length, rows, widths, report, stdout, log, dir_exists,
          file, file0, error>>

(***************************************************************************)
(* Text                                                                    *)
(***************************************************************************)
Max(a, b) == IF a >= b THEN a ELSE b

Min(a, b) == IF a <= b THEN a ELSE b

\* s[:n] for n >= 0
Take(s, n) == SubSeq(s, 1, Min(n, Len(s)))

\* c * n
Repeat(c, n) == [i \in 1..Max(n, 0) |-> c]

\* s.ljust(w)
Ljust(s, w) == s \o Repeat(" ", w - Len(s))

\* s.rjust(w)
Rjust(s, w) == Repeat(" ", w - Len(s)) \o s

RECURSIVE Join(_, _)
\* sep.join(parts)
Join(sep, parts) ==
    IF Len(parts) = 0 THEN <<>>
    ELSE IF Len(parts) = 1 THEN parts[1]
    ELSE parts[1] \o sep \o Join(sep, Tail(parts))

Digits == <<"0", "1", "2", "3", "4", "5", "6", "7", "8", "9">>

RECURSIVE StrNat(_)
StrNat(n) == IF n < 10 THEN <<Digits[n + 1]>> ELSE StrNat(n \div 10) \o <<Digits[(n % 10) + 1]>>

\* str(n) of an int
Str(n) == IF n < 0 THEN <<"-">> \o StrNat(0 - n) ELSE StrNat(n)

\* f"{n:0{w}d}" of a non-negative int, as isoformat() writes its fields
ZeroPad(n, w) == Repeat("0", w - Len(StrNat(n))) \o StrNat(n)

(***************************************************************************)
(* Time (UTC, proleptic Gregorian calendar, no leap seconds)               *)
(***************************************************************************)
SecondsPerDay == 24 * 60 * 60

\* (now - timedelta(days=d)).replace(hour=0, minute=0, second=0, microsecond=0)
\* followed by int(.timestamp())
MidnightDaysBefore(t, d) == ((t.sec - d * SecondsPerDay) \div SecondsPerDay) * SecondsPerDay

\* int(now.timestamp())
IntTimestamp(t) == t.sec

\* year, month, day of the date that lies z days after 1970-01-01
CivilFromDays(z) ==
    LET s   == z + 719468
        era == s \div 146097
        doe == s - era * 146097
        yoe == (doe - doe \div 1460 + doe \div 36524 - doe \div 146096) \div 365
        doy == doe - (365 * yoe + yoe \div 4 - yoe \div 100)
        mp  == (5 * doy + 2) \div 153
        d   == doy - (153 * mp + 2) \div 5 + 1
        m   == IF mp < 10 THEN mp + 3 ELSE mp - 9
        y   == yoe + era * 400 + (IF m <= 2 THEN 1 ELSE 0)
    IN  [year |-> y, month |-> m, day |-> d]

\* datetime.fromtimestamp(ts, tz=utc).isoformat().replace("+00:00", "Z")
IsoFormatZ(ts) ==
    LET c   == CivilFromDays(ts \div SecondsPerDay)
        sod == ts % SecondsPerDay
    IN  ZeroPad(c.year, 4) \o <<"-">> \o ZeroPad(c.month, 2) \o <<"-">> \o ZeroPad(c.day, 2)
        \o <<"T">> \o ZeroPad(sod \div 3600, 2) \o <<":">> \o ZeroPad((sod % 3600) \div 60, 2)
        \o <<":">> \o ZeroPad(sod % 60, 2) \o <<"Z">>

(***************************************************************************)
(* JSON values that may be missing (dict.get gives None) or null           *)
(***************************************************************************)
Absent(d) == [t |-> "absent", v |-> d]

Null(d) == [t |-> "null", v |-> d]

JInt(n) == [t |-> "int", v |-> n]

JStr(s) == [t |-> "str", v |-> s]

JList(l) == [t |-> "list", v |-> l]

(***************************************************************************)
(* admin_get                                                               *)
(***************************************************************************)
\* faulty variant of the credential test: only an unset variable is refused
KeyMissing_UnsetOnly(key) == key.t = "absent"

\* `not api_key`: os.getenv gives None when unset; the empty string is falsy too
KeyMissing(key) == key.t = "absent" \/ Len(key.v) = 0

\* resp.raise_for_status() raises unless the status is a success
IsSuccessStatus(status) == status >= 200 /\ status < 300

IsSpace(c) == c \in {" ", "\n", "\t", "\r"}

RECURSIVE LStrip(_)
LStrip(s) == IF Len(s) > 0 /\ IsSpace(s[1]) THEN LStrip(Tail(s)) ELSE s

RECURSIVE RStrip(_)
RStrip(s) == IF Len(s) > 0 /\ IsSpace(s[Len(s)]) THEN RStrip(SubSeq(s, 1, Len(s) - 1)) ELSE s

\* err.response.text.strip() or "<no body>"
BodyText(text) ==
    LET stripped == LStrip(RStrip(text))
    IN  IF Len(stripped) = 0 THEN <<"<", "n", "o", " ", "b", "o", "d", "y", ">">> ELSE stripped

\* f"[Admin API] HTTP {status}: {body_text}"
AdminApiMessage(status, text) ==
    <<"[", "A", "d", "m", "i", "n", " ", "A", "P", "I", "]", " ", "H", "T", "T", "P", " ">>
    \o Str(status) \o <<":", " ">> \o BodyText(text)

(***************************************************************************)
(* get_recent_completions_usage                                            *)
(***************************************************************************)
MaxBucketLimit == 31

DebugLimit == 31

\* past_days = max(1, min(past_days + 1, 31))
ClampedDays(d) == Max(1, Min(d + 1, MaxBucketLimit))

\* the query parameters of the request
RequestParams(d, dbg, t) ==
    LET pd == ClampedDays(d)
    IN  IF ~dbg
        THEN [start_time   |-> MidnightDaysBefore(t, pd),
              end_time     |-> JInt(IntTimestamp(t)),
              limit        |-> pd,
              bucket_width |-> "1d",
              group_by     |-> <<"model">>]
        ELSE [start_time   |-> MidnightDaysBefore(t, pd),
              end_time     |-> Absent(0),
              limit        |-> DebugLimit,
              bucket_width |-> "absent",
              group_by     |-> <<>>]

\* one pass of the loop that adds start_datetime to a bucket
AnnotateBucket(bucket) ==
    IF bucket.start_time.t # "int" THEN bucket
    ELSE [bucket EXCEPT !.start_datetime = JStr(IsoFormatZ(bucket.start_time.v))]

\* usage.get("data", [])
DataOf(u) == IF u.data.t = "list" THEN u.data.v ELSE <<>>

\* for bucket in usage.get("data", []): ... ; return usage
Annotate(u) ==
    IF u.data.t # "list" THEN u
    ELSE [u EXCEPT !.data = JList([i \in 1..Len(u.data.v) |-> AnnotateBucket(u.data.v[i])])]

(***************************************************************************)
(* printable_completions_usage                                             *)
(***************************************************************************)
DefaultMaxModelLength == 30

DateLength == 10

NumColumns == 6

\* headers = ("UTC Date", "Model", "Input", "Output", "Total", "Requests")
Headers ==
    << <<"U", "T", "C", " ", "D", "a", "t", "e">>,
       <<"M", "o", "d", "e", "l">>,
       <<"I", "n", "p", "u", "t">>,
       <<"O", "u", "t", "p", "u", "t">>,
       <<"T", "o", "t", "a", "l">>,
       <<"R", "e", "q", "u", "e", "s", "t", "s">> >>

CompletionsResult == "organization.usage.completions.result"

AllModels == <<"(", "a", "l", "l", " ", "m", "o", "d", "e", "l", "s", ")">>

\* faulty variant: falls back to "result" whenever "results" is falsy
ResultsOf_OrFallback(bucket) ==
    IF bucket.results.t = "list" /\ Len(bucket.results.v) > 0 THEN bucket.results.v
    ELSE IF bucket.result.t = "list" THEN bucket.result.v
    ELSE <<>>

\* results = bucket.get("results"); if results is None: results = bucket.get("result") or []
ResultsOf(bucket) ==
    IF bucket.results.t = "list" THEN bucket.results.v
    ELSE IF bucket.result.t = "list" THEN bucket.result.v
    ELSE <<>>

\* date_iso = bucket.get("start_datetime", ""); date_str = date_iso[:10] if date_iso else ""
DateStr(bucket) ==
    LET date_iso == IF bucket.start_datetime.t = "str" THEN bucket.start_datetime.v ELSE <<>>
    IN  IF Len(date_iso) > 0 THEN Take(date_iso, DateLength) ELSE <<>>

\* result.get("object") != "organization.usage.completions.result" fails
IsCompletionsResult(result) == result.object = CompletionsResult

\* faulty variant: cuts one character too many
ModelDisplay_OffByOne(result, maxlen) ==
    LET model_full == IF result.model.t = "str" /\ Len(result.model.v) > 0
                      THEN result.model.v ELSE AllModels
    IN  IF maxlen > 0 /\ Len(model_full) > maxlen THEN Take(model_full, maxlen - 1)
        ELSE model_full

\* model_full = result.get("model") or "(all models)", cut to max_model_length
ModelDisplay(result, maxlen) ==
    LET model_full == IF result.model.t = "str" /\ Len(result.model.v) > 0
                      THEN result.model.v ELSE AllModels
    IN  IF maxlen > 0 /\ Len(model_full) > maxlen THEN Take(model_full, maxlen)
        ELSE model_full

\* int(result.get(field) or 0)
IntOrZero(x) == IF x.t = "int" THEN x.v ELSE 0

\* faulty variant: takes the total from the input count alone
TotalTokens_InputOnly(result) == IntOrZero(result.input_tokens)

\* total_tokens = input_tokens + output_tokens
TotalTokens(result) == IntOrZero(result.input_tokens) + IntOrZero(result.output_tokens)

\* the row tuple of one result
ResultRow(result, date_cell, maxlen) ==
    << date_cell,
       ModelDisplay(result, maxlen),
       Str(IntOrZero(result.input_tokens)),
       Str(IntOrZero(result.output_tokens)),
       Str(TotalTokens(result)),
       Str(IntOrZero(result.num_model_requests)) >>

RECURSIVE ResultRows_FirstIndexOnly(_, _, _, _)
\* faulty variant: clears first_for_day after the first result, matching or not
ResultRows_FirstIndexOnly(results, date_str, first_for_day, maxlen) ==
    IF Len(results) = 0 THEN <<>>
    ELSE IF ~IsCompletionsResult(Head(results))
         THEN ResultRows_FirstIndexOnly(Tail(results), date_str, FALSE, maxlen)
    ELSE <<ResultRow(Head(results), IF first_for_day THEN date_str ELSE <<>>, maxlen)>>
         \o ResultRows_FirstIndexOnly(Tail(results), date_str, FALSE, maxlen)

RECURSIVE ResultRows(_, _, _, _)
\* for result in results: ... rows.append(row), with first_for_day as it stands
ResultRows(results, date_str, first_for_day, maxlen) ==
    IF Len(results) = 0 THEN <<>>
    ELSE IF ~IsCompletionsResult(Head(results))
         THEN ResultRows(Tail(results), date_str, first_for_day, maxlen)
    ELSE <<ResultRow(Head(results), IF first_for_day THEN date_str ELSE <<>>, maxlen)>>
         \o ResultRows(Tail(results), date_str, FALSE, maxlen)

\* one pass of the loop over the buckets
BucketRows(bucket, maxlen) ==
    IF Len(ResultsOf(bucket)) = 0 THEN <<>>
    ELSE ResultRows(ResultsOf(bucket), DateStr(bucket), TRUE, maxlen)

RECURSIVE RowsOfData(_, _)
RowsOfData(data, maxlen) ==
    IF Len(data) = 0 THEN <<>>
    ELSE BucketRows(Head(data), maxlen) \o RowsOfData(Tail(data), maxlen)

\* rows, after the loop over usage.get("data", [])
Rows(u, maxlen) == RowsOfData(DataOf(u), maxlen)

\* widths = [len(h) for h in headers]
HeaderWidths == [i \in 1..NumColumns |-> Len(Headers[i])]

RECURSIVE WidthsFrom(_, _)
\* widths[i] = max(widths[i], len(cell)) for each row in turn
WidthsFrom(w, rs) ==
    IF Len(rs) = 0 THEN w
    ELSE WidthsFrom([i \in 1..NumColumns |-> Max(w[i], Len(Head(rs)[i]))], Tail(rs))

\* faulty variant: never widens a column beyond its header
Widths_HeaderOnly(rs) == HeaderWidths

Widths(rs) == WidthsFrom(HeaderWidths, rs)

\* "| " + " | ".join(cells) + " |"
PipeLine(cells) == <<"|", " ">> \o Join(<<" ", "|", " ">>, cells) \o <<" ", "|">>

HeaderRow(w) == PipeLine([i \in 1..NumColumns |-> Ljust(Headers[i], w[i])])

SeparatorRow(w) == PipeLine([i \in 1..NumColumns |-> Repeat("-", w[i])])

\* left-align date and model (i <= 1, counted from 0), right-align the numeric columns
DataLine(row, w) ==
    PipeLine([i \in 1..NumColumns |->
                 IF i <= 2 THEN Ljust(row[i], w[i]) ELSE Rjust(row[i], w[i])])

\* lines: header, separator, data rows
TableLines(rs, w) ==
    <<HeaderRow(w), SeparatorRow(w)>> \o [k \in 1..Len(rs) |-> DataLine(rs[k], w)]

\* "\n".join(lines)
Render(rs, w) == Join(<<"\n">>, TableLines(rs, w))

(***************************************************************************)
(* Inputs                                                                  *)
(***************************************************************************)
MaxBuckets == 2

PastDaysSlack == 2

MainPastDays == 14

\* the day counts tried: the documented range 1..30 and PastDaysSlack values either side
PastDaysSamples == (0 - PastDaysSlack) .. (MaxBucketLimit - 1 + PastDaysSlack)

\* the clock: midnight, midday and the last microsecond of a day, on 2023-11-14 and 2024-03-05
NowSamples ==
    {[sec |-> d * SecondsPerDay + s, micro |-> m] :
        d \in {19675, 19787}, s \in {0, 43200, 86399}, m \in {0, 999999}}

KeySamples == {Absent(<<>>), JStr(<<>>), JStr(<<"s", "k", "-", "a", "d", "m", "i", "n">>)}

NoInt == Absent(0)

NoList == Absent(<<>>)

Gpt4 == <<"g", "p", "t", "-", "4">>

LongModel ==
    <<"g", "p", "t", "-", "4", "o", "-", "m", "i", "n", "i", "-", "2", "0", "2", "4", "-",
      "0", "7", "-", "1", "8", "-", "l", "o", "n", "g", "-", "n", "a", "m", "e", "-", "x">>

R1 == [object |-> CompletionsResult, model |-> JStr(Gpt4),
       input_tokens |-> JInt(100), output_tokens |-> JInt(50), num_model_requests |-> JInt(3)]

R2 == [object |-> CompletionsResult, model |-> Absent(<<>>),
       input_tokens |-> NoInt, output_tokens |-> JInt(1234567), num_model_requests |-> Null(0)]

R3 == [object |-> "organization.usage.embeddings.result", model |-> JStr(<<"o", "1">>),
       input_tokens |-> JInt(7), output_tokens |-> JInt(0), num_model_requests |-> JInt(1)]

R4 == [object |-> CompletionsResult, model |-> JStr(LongModel),
       input_tokens |-> JInt(0), output_tokens |-> Null(0), num_model_requests |-> JInt(12)]

R5 == [object |-> CompletionsResult, model |-> JStr(<<>>),
       input_tokens |-> JInt(9), output_tokens |-> JInt(9), num_model_requests |-> NoInt]

R6 == [object |-> "absent", model |-> Null(<<>>),
       input_tokens |-> JInt(2), output_tokens |-> JInt(2), num_model_requests |-> JInt(2)]

\* a bucket as the endpoint sends it
Bucket(start, results, result) ==
    [start_time |-> start, start_datetime |-> Absent(<<>>), results |-> results, result |-> result]

BucketSamples ==
    LET t1 == JInt(1700000000)
        t2 == JInt(1700092800)
    IN  { Bucket(t1, JList(<<R1>>), NoList),
          Bucket(t1, JList(<<R1, R2>>), NoList),
          Bucket(t2, JList(<<R3, R4>>), NoList),
          Bucket(t2, JList(<<R3>>), NoList),
          Bucket(t2, JList(<<R2, R6, R5>>), NoList),
          Bucket(t1, NoList, JList(<<R1, R4>>)),
          Bucket(t1, Null(<<>>), JList(<<R5>>)),
          Bucket(t1, JList(<<>>), JList(<<R1>>)),
          Bucket(t1, JList(<<>>), NoList),
          Bucket(NoInt, JList(<<R1, R2>>), NoList),
          Bucket(Null(0), NoList, Null(<<>>)),
          Bucket(t2, JList(<<R4>>), JList(<<R1>>)) }

SeqsUpTo(S, n) == UNION {[1..k -> S] : k \in 0..n}

\* JSON documents of the endpoint: with and without "data", up to MaxBuckets buckets
PayloadSamples ==
    {[data |-> NoList]} \cup {[data |-> JList(bs)] : bs \in SeqsUpTo(BucketSamples, MaxBuckets)}

MaxModelLengthSamples == {0 - 1, 0, 4, 5, DefaultMaxModelLength}

\* HTTP responses: the status, the body text of a failure, the JSON document of a success
ResponseSamples ==
    {[status |-> 200, text |-> <<>>, is_json |-> TRUE, json |-> [data |-> JList(bs)]] :
        bs \in SeqsUpTo(BucketSamples, 1)}
    \cup {[status |-> 200, text |-> <<"<">>, is_json |-> FALSE, json |-> [data |-> NoList]]}
    \cup {[status |-> st, text |-> tx, is_json |-> FALSE, json |-> [data |-> NoList]] :
            st \in {401, 500}, tx \in {<<>>, <<" ", "\n">>, <<" ", "d", "e", "n", "i", "e", "d">>}}

NoFile == [exists |-> FALSE, content |-> <<>>]

OldFile == [exists |-> TRUE, content |-> <<"o", "l", "d">>]

(***************************************************************************)
(* The run                                                                 *)
(***************************************************************************)
\* before httpx.get has answered
NoResponse == [status |-> 0, text |-> <<>>, is_json |-> FALSE, json |-> [data |-> NoList]]

InitCommon ==
    /\ env_key \in KeySamples
    /\ params = RequestParams(0, TRUE, [sec |-> 0, micro |-> 0])
    /\ requests = <<>>
    /\ body = NoResponse
    /\ rows = <<>>
    /\ widths = HeaderWidths
    /\ report = <<>>
    /\ stdout = <<>>
    /\ log = <<>>
    /\ file = file0
    /\ error = "none"

\* python openai_token_usage.py
InitMain ==
    /\ entry = "main"
    /\ pc = "get_recent_completions_usage"
    /\ past_days = MainPastDays
    /\ debug = FALSE
    /\ now \in NowSamples
    /\ usage = [data |-> NoList]
    /\ max_model_length = DefaultMaxModelLength
    /\ \E fs \in {<<FALSE, NoFile>>, <<TRUE, NoFile>>, <<TRUE, OldFile>>} :
          dir_exists = fs[1] /\ file0 = fs[2]

\* a direct call of get_recent_completions_usage(past_days, debug=debug)
InitFetch ==
    /\ entry = "get_recent_completions_usage"
    /\ pc = "get_recent_completions_usage"
    /\ past_days \in PastDaysSamples
    /\ debug \in BOOLEAN
    /\ now \in NowSamples
    /\ usage = [data |-> NoList]
    /\ max_model_length = DefaultMaxModelLength
    /\ dir_exists = TRUE
    /\ file0 = NoFile

\* a direct call of printable_completions_usage(usage, max_model_length=...)
InitFormat ==
    /\ entry = "printable_completions_usage"
    /\ pc = "printable_completions_usage"
    /\ past_days = MainPastDays
    /\ debug = FALSE
    /\ now = [sec |-> 19675 * SecondsPerDay, micro |-> 0]
    /\ usage \in {Annotate(u) : u \in PayloadSamples}
    /\ max_model_length \in MaxModelLengthSamples
    /\ dir_exists = TRUE
    /\ file0 = NoFile

Init == (InitMain \/ InitFetch \/ InitFormat) /\ InitCommon

Raise(exc) == pc' = "failed" /\ error' = exc

\* get_recent_completions_usage up to its call of admin_get
BuildParams ==
    /\ pc = "get_recent_completions_usage"
    /\ params' = RequestParams(past_days, debug, now)
    /\ pc' = "admin_get"
    /\ UNCHANGED <<entry, env_key, past_days, debug, now, requests, body, usage,
                   max_model_length, rows, widths, report, stdout, log, dir_exists,
                   file, file0, error>>

\* admin_get: the credential check
CheckKey ==
    /\ pc = "admin_get"
    /\ IF KeyMissing(env_key) THEN Raise("ValueError")
       ELSE pc' = "httpx.get" /\ UNCHANGED error
    /\ UNCHANGED <<entry, env_key, past_days, debug, now, params, requests, body, usage,
                   max_model_length, rows, widths, report, stdout, log, dir_exists,
                   file, file0>>

Request == [path |-> "organization/usage/completions", authorization |-> env_key.v,
            params |-> params]

\* httpx.get raises httpx.RequestError: logged and raised again
HttpRequestError ==
    /\ pc = "httpx.get"
    /\ requests' = Append(requests, Request)
    /\ log' = Append(log, "Request error")
    /\ Raise("RequestError")
    /\ UNCHANGED <<entry, env_key, past_days, debug, now, params, body, usage,
                   max_model_length, rows, widths, report, stdout, dir_exists, file, file0>>

\* httpx.get answers; raise_for_status decides between the return and HTTPStatusError
HttpResponse ==
    /\ pc = "httpx.get"
    /\ requests' = Append(requests, Request)
    /\ \E resp \in ResponseSamples :
          IF IsSuccessStatus(resp.status)
          THEN /\ body' = resp
               /\ pc' = "resp.json"
               /\ UNCHANGED <<stdout, log, error>>
          ELSE /\ stdout' = Append(stdout, [by |-> "admin_get",
                                            text |-> AdminApiMessage(resp.status, resp.text) \o <<"\n">>])
               /\ log' = Append(log, "HTTP error")
               /\ Raise("HTTPStatusError")
               /\ UNCHANGED body
    /\ UNCHANGED <<entry, env_key, past_days, debug, now, params, usage,
                   max_model_length, rows, widths, report, dir_exists, file, file0>>

\* usage = resp.json(), the start_datetime loop, return usage
ParseAndAnnotate ==
    /\ pc = "resp.json"
    /\ IF body.is_json
       THEN /\ usage' = Annotate(body.json)
            /\ pc' = IF entry = "main" THEN "printable_completions_usage" ELSE "returned"
            /\ UNCHANGED error
       ELSE Raise("JSONDecodeError") /\ UNCHANGED usage
    /\ UNCHANGED <<entry, env_key, past_days, debug, now, params, requests, body,
                   max_model_length, rows, widths, report, stdout, log, dir_exists,
                   file, file0>>

\* printable_completions_usage
Format ==
    /\ pc = "printable_completions_usage"
    /\ rows' = Rows(usage, max_model_length)
    /\ widths' = Widths(rows')
    /\ report' = Render(rows', widths')
    /\ pc' = IF entry = "main" THEN "print" ELSE "returned"
    /\ UNCHANGED <<entry, env_key, past_days, debug, now, params, requests, body, usage,
                   max_model_length, stdout, log, dir_exists, file, file0, error>>

\* print(usage_report)
PrintReport ==
    /\ pc = "print"
    /\ stdout' = Append(stdout, [by |-> "main", text |-> report \o <<"\n">>])
    /\ pc' = "os.makedirs"
    /\ UNCHANGED <<entry, env_key, past_days, debug, now, params, requests, body, usage,
                   max_model_length, rows, widths, report, log, dir_exists, file, file0, error>>

\* os.makedirs(output_dir, exist_ok=True): creates a missing directory, or raises OSError
MakeDirs ==
    /\ pc = "os.makedirs"
    /\ \/ dir_exists' = TRUE /\ pc' = "open" /\ UNCHANGED error
       \/ ~dir_exists /\ Raise("OSError") /\ UNCHANGED dir_exists
    /\ UNCHANGED <<entry, env_key, past_days, debug, now, params, requests, body, usage,
                   max_model_length, rows, widths, report, stdout, log, file, file0>>

\* open(path, "w"): creates or truncates the file, or raises OSError
OpenFile ==
    /\ pc = "open"
    /\ \/ file' = [exists |-> TRUE, content |-> <<>>] /\ pc' = "f.write" /\ UNCHANGED error
       \/ Raise("OSError") /\ UNCHANGED file
    /\ UNCHANGED <<entry, env_key, past_days, debug, now, params, requests, body, usage,
                   max_model_length, rows, widths, report, stdout, log, dir_exists, file0>>

\* faulty variant: closes the file without writing
WrittenContent_Nothing(text) == <<>>

\* what f.write(usage_report) and the close leave in the file
WrittenContent(text) == text

\* f.write(usage_report) and the close of the with block: all of the text, or OSError
\* with part of it on disk
WriteFile ==
    /\ pc = "f.write"
    /\ \/ /\ file' = [file EXCEPT !.content = WrittenContent(report)]
          /\ pc' = "done"
          /\ UNCHANGED error
       \/ /\ \E k \in {0, Len(report) \div 2} : file' = [file EXCEPT !.content = Take(report, k)]
          /\ Raise("OSError")
    /\ UNCHANGED <<entry, env_key, past_days, debug, now, params, requests, body, usage,
                   max_model_length, rows, widths, report, stdout, log, dir_exists, file0>>

Next ==
    \/ BuildParams
    \/ CheckKey
    \/ HttpRequestError
    \/ HttpResponse
    \/ ParseAndAnnotate
    \/ Format
    \/ PrintReport
    \/ MakeDirs
    \/ OpenFile
    \/ WriteFile

Spec == Init /\ [][Next]_vars

(***************************************************************************)
(* Vocabulary of the properties, stated on the payload and on the text     *)
(* and not through the operators above                                     *)
(***************************************************************************)
\* the run came through get_recent_completions_usage and has built its parameters
ParamsBuilt == entry # "printable_completions_usage" /\ pc # "get_recent_completions_usage"

\* printable_completions_usage has returned (its table always holds a header)
Formatted == report # <<>>

UnsetOrEmpty(key) == key.t = "absent" \/ key.v = <<>>

\* the number of UTC calendar days that the half-open interval from s to e meets
CalendarDaysMet(s, e) ==
    IF e <= s THEN 0 ELSE ((e - 1) \div SecondsPerDay) - (s \div SecondsPerDay) + 1

\* the number, counted from 1, of the one-day bucket from s on that holds the instant e
BucketIndexOf(s, e) == ((e - s) \div SecondsPerDay) + 1

DigitValue(c) == CHOOSE d \in 0..9 : Digits[d + 1] = c

IsNumeral(s) == Len(s) > 0 /\ \A i \in 1..Len(s) : \E d \in 0..9 : Digits[d + 1] = s[i]

RECURSIVE NumeralValue(_)
\* the number a decimal numeral writes
NumeralValue(s) ==
    IF Len(s) = 0 THEN 0
    ELSE 10 * NumeralValue(SubSeq(s, 1, Len(s) - 1)) + DigitValue(s[Len(s)])

CountOrZero(x) == IF x.t = "int" THEN x.v ELSE 0

HasTag(r) == r.object = "organization.usage.completions.result"

\* the result list of a bucket: "results", and "result" when "results" is missing or null
ListRead(b) ==
    IF b.results.t = "list" THEN b.results.v
    ELSE IF b.result.t = "list" THEN b.result.v
    ELSE <<>>

\* the result list of a bucket if either field name served whenever the other is empty
ListFromEither(b) ==
    IF b.results.t = "list" /\ b.results.v # <<>> THEN b.results.v
    ELSE IF b.result.t = "list" THEN b.result.v
    ELSE <<>>

Tagged(l) == SelectSeq(l, HasTag)

RECURSIVE TaggedOfData(_)
\* the tagged results of the buckets' result lists, in payload order
TaggedOfData(data) ==
    IF Len(data) = 0 THEN <<>> ELSE Tagged(ListRead(Head(data))) \o TaggedOfData(Tail(data))

RECURSIVE TaggedFromEither(_)
TaggedFromEither(data) ==
    IF Len(data) = 0 THEN <<>>
    ELSE Tagged(ListFromEither(Head(data))) \o TaggedFromEither(Tail(data))

\* the rows that belong to bucket j, a bucket owning one row per tagged result it holds
RowsOfBucket(j) ==
    LET data == DataOf(usage)
        off  == Len(TaggedOfData(SubSeq(data, 1, j - 1)))
        n    == Len(Tagged(ListRead(data[j])))
    IN  IF off + n <= Len(rows) THEN SubSeq(rows, off + 1, off + n) ELSE <<>>

\* row k shows the counts of result r
ShowsCounts(row, r) ==
    /\ IsNumeral(row[3]) /\ NumeralValue(row[3]) = CountOrZero(r.input_tokens)
    /\ IsNumeral(row[4]) /\ NumeralValue(row[4]) = CountOrZero(r.output_tokens)
    /\ IsNumeral(row[6]) /\ NumeralValue(row[6]) = CountOrZero(r.num_model_requests)

NewlinePositions == {i \in 1..Len(report) : report[i] = "\n"}

\* the lines of the returned text
ReportLines ==
    LET nl     == NewlinePositions
        cut(k) == IF k = 0 THEN 0
                  ELSE IF k = Cardinality(nl) + 1 THEN Len(report) + 1
                  ELSE CHOOSE p \in nl : Cardinality({q \in nl : q < p}) = k - 1
    IN  [k \in 1..(Cardinality(nl) + 1) |-> SubSeq(report, cut(k - 1) + 1, cut(k) - 1)]

RECURSIVE SumTo(_, _)
SumTo(w, i) == IF i = 0 THEN 0 ELSE w[i] + SumTo(w, i - 1)

\* where column i begins in a line laid out with the widths w: after "| " and, for
\* each column before it, that column and " | "
ColumnStart(w, i) == 3 + SumTo(w, i - 1) + 3 * (i - 1)

\* the characters of column i in a line
Field(line, w, i) == SubSeq(line, ColumnStart(w, i), ColumnStart(w, i) + w[i] - 1)

LeftAligned(field, cell) ==
    /\ Len(cell) <= Len(field)
    /\ SubSeq(field, 1, Len(cell)) = cell
    /\ \A p \in (Len(cell) + 1)..Len(field) : field[p] = " "

RightAligned(field, cell) ==
    /\ Len(cell) <= Len(field)
    /\ SubSeq(field, Len(field) - Len(cell) + 1, Len(field)) = cell
    /\ \A p \in 1..(Len(field) - Len(cell)) : field[p] = " "

\* the line is "| " field " | " field ... " |" for the widths w
Delimited(line, w) ==
    /\ Len(line) = SumTo(w, 6) + 19
    /\ SubSeq(line, 1, 2) = <<"|", " ">>
    /\ SubSeq(line, Len(line) - 1, Len(line)) = <<" ", "|">>
    /\ \A i \in 1..5 :
          SubSeq(line, ColumnStart(w, i) + w[i], ColumnStart(w, i) + w[i] + 2) = <<" ", "|", " ">>

(***************************************************************************)
(* Properties                                                              *)
(***************************************************************************)
\* C1: when OPENAI_ADMIN_KEY is unset or empty, admin_get (reached through
\* get_recent_completions_usage in normal and in debug mode, or through main) fails
\* with the configuration error ValueError, and no HTTP GET is issued at any point.
C1_NoRequestWithoutKey ==
    (entry # "printable_completions_usage" /\ UnsetOrEmpty(env_key)) =>
        /\ requests = <<>>
        /\ pc \in {"get_recent_completions_usage", "admin_get", "failed"}
        /\ (pc = "failed" => error = "ValueError")

C1_Witness ==
    /\ entry = "get_recent_completions_usage" /\ debug
    /\ env_key.t = "str" /\ env_key.v = <<>>
    /\ pc = "failed" /\ error = "ValueError" /\ requests = <<>>

ReportPrinted == \E i \in 1..Len(stdout) : stdout[i].by = "main" /\ stdout[i].text = report \o <<"\n">>

NothingPrintedAsReport == \A i \in 1..Len(stdout) : stdout[i].by # "main"

FullReportProduced == ReportPrinted /\ file.exists /\ file.content = report

NothingWritten == NothingPrintedAsReport /\ file = file0

\* C2 as stated: every run of main, failed or not, ends with the full report produced
\* (printed and written in full) or with no report text written anywhere.
C2_AllOrNothing ==
    (entry = "main" /\ pc \in {"done", "failed"}) => (FullReportProduced \/ NothingWritten)

\* C2 as amended: a run of main that fails at the credential check, at the HTTP request
\* or at the decoding of its body writes no report text anywhere; a run that does not
\* fail prints the full report and writes it in full; a run that fails at the directory
\* creation, at the open or at the write has printed the full report and has not
\* written it in full.
C2_AllOrNothingUpToPrint ==
    entry = "main" =>
        /\ pc = "done" => (error = "none" /\ FullReportProduced)
        /\ (pc = "failed" /\ error # "OSError") =>
              (error \in {"ValueError", "HTTPStatusError", "RequestError", "JSONDecodeError"}
               /\ NothingWritten)
        /\ (pc = "failed" /\ error = "OSError") =>
              (ReportPrinted /\ ~(file.exists /\ file.content = report))
        /\ pc \notin {"done", "failed", "os.makedirs", "open", "f.write"} => NothingWritten

C2_Witness ==
    /\ entry = "main" /\ pc = "failed" /\ error = "HTTPStatusError"
    /\ stdout # <<>> /\ NothingWritten /\ file0 = OldFile

\* C3 as stated: for a day count D in 1..30 the window from start_time to now meets
\* exactly D + 1 calendar days, and the limit sent is at most 31.
C3_WindowSpansDaysPlusOne ==
    (ParamsBuilt /\ past_days \in 1..30) =>
        /\ CalendarDaysMet(params.start_time, IntTimestamp(now)) = past_days + 1
        /\ params.limit <= 31

\* C4 as stated: in normal mode, for a day count D in 1..30, the one-day bucket that
\* holds now is among the first `limit` one-day buckets counted from start_time.
C4_TodayWithinLimit ==
    (ParamsBuilt /\ ~debug /\ past_days \in 1..30) =>
        BucketIndexOf(params.start_time, params.end_time.v) <= params.limit

\* C5 as stated: in normal mode a day count below 1 sends the start_time and limit of
\* D = 1, and a day count above 30 those of D = 30.
C5_ClampedToOneThirty ==
    (ParamsBuilt /\ ~debug) =>
        /\ past_days < 1 =>
              /\ params.limit = 2
              /\ params.start_time = ((now.sec \div SecondsPerDay) - 2) * SecondsPerDay
        /\ past_days > 30 =>
              /\ params.limit = 31
              /\ params.start_time = ((now.sec \div SecondsPerDay) - 31) * SecondsPerDay

\* C6: the formatter emits exactly one data row per result tagged
\* "organization.usage.completions.result" of the buckets' result lists, in payload
\* order, and none for any other result; each row shows the result's counts with a
\* missing or null count as 0, and its Total is Input + Output.  The returned text
\* holds the header, the separator and one line per row, so only those two lines when
\* no bucket contributes.
C6_OneRowPerTaggedResult ==
    Formatted =>
        LET expected == TaggedOfData(DataOf(usage))
        IN  /\ Len(rows) = Len(expected)
            /\ Cardinality(NewlinePositions) + 1 = 2 + Len(expected)
            /\ \A k \in 1..Len(rows) :
                  /\ k <= Len(expected) => ShowsCounts(rows[k], expected[k])
                  /\ IsNumeral(rows[k][5])
                  /\ NumeralValue(rows[k][5]) = NumeralValue(rows[k][3]) + NumeralValue(rows[k][4])

C6_Witness ==
    /\ entry = "printable_completions_usage" /\ pc = "returned"
    /\ Len(DataOf(usage)) = 2
    /\ \E j \in 1..2 : \E i \in 1..Len(ListRead(DataOf(usage)[j])) :
          ~HasTag(ListRead(DataOf(usage)[j])[i])
    /\ Len(rows) = 3
    /\ \E k \in 1..3 : rows[k][3] # <<"0">> /\ rows[k][4] # <<"0">> /\ rows[k][5] # rows[k][3]
    /\ \E k \in 1..3 : TaggedOfData(DataOf(usage))[k].input_tokens.t = "absent"

\* C7: for every bucket that has a start datetime and contributes rows, the first row
\* of the bucket shows the first 10 characters of the ISO datetime and every later row
\* of the bucket an empty date cell, also when untagged results come first.
C7_DateOnFirstRowOnly ==
    Formatted =>
        \A j \in 1..Len(DataOf(usage)) :
            LET b   == DataOf(usage)[j]
                own == RowsOfBucket(j)
            IN  (b.start_datetime.t = "str" /\ b.start_datetime.v # <<>>
                 /\ Len(Tagged(ListRead(b))) > 0) =>
                    /\ Len(own) = Len(Tagged(ListRead(b)))
                    /\ own[1][1] = SubSeq(b.start_datetime.v, 1, 10)
                    /\ Len(own[1][1]) = 10
                    /\ \A k \in 2..Len(own) : own[k][1] = <<>>

C7_Witness ==
    /\ Formatted
    /\ \E j \in 1..Len(DataOf(usage)) :
          LET b == DataOf(usage)[j]
          IN  /\ b.start_datetime.t = "str"
              /\ Len(ListRead(b)) >= 2
              /\ ~HasTag(ListRead(b)[1])
              /\ Len(RowsOfBucket(j)) = 1
              /\ RowsOfBucket(j)[1][1] = <<"2", "0", "2", "3", "-", "1", "1", "-", "1", "6">>
    /\ \E j \in 1..Len(DataOf(usage)) :
          /\ DataOf(usage)[j].start_datetime.t = "str"
          /\ Len(RowsOfBucket(j)) = 2
          /\ RowsOfBucket(j)[2][1] = <<>>

C9_AlignedTable ==
    Formatted =>
        LET lines == ReportLines
            w     == [i \in 1..6 |->
                        CHOOSE m \in {Len(Headers[i])} \cup {Len(rows[k][i]) : k \in 1..Len(rows)} :
                            /\ m >= Len(Headers[i])
                            /\ \A k \in 1..Len(rows) : m >= Len(rows[k][i])]
        IN  /\ widths = w
            /\ Len(lines) = 2 + Len(rows)
            /\ \A k \in 1..Len(lines) : Len(lines[k]) = Len(lines[1]) /\ Delimited(lines[k], w)
            /\ \A i \in 1..6 :
                  /\ LeftAligned(Field(lines[1], w, i), Headers[i])
                  /\ Field(lines[2], w, i) = [p \in 1..w[i] |-> "-"]
                  /\ \A k \in 1..Len(rows) :
                        IF i <= 2 THEN LeftAligned(Field(lines[k + 2], w, i), rows[k][i])
                        ELSE RightAligned(Field(lines[k + 2], w, i), rows[k][i])

C9_Witness ==
    /\ Formatted /\ Len(rows) >= 3
    /\ widths[1] = 10 /\ widths[2] = 30 /\ widths[4] = 7 /\ widths[3] = 5
    /\ \E k \in 1..Len(rows) : rows[k][1] = <<>>
    /\ \E k \in 1..Len(rows) : Len(rows[k][4]) = 1
    /\ Len(ReportLines) = 2 + Len(rows)

\* C10 as stated: a bucket's result list comes from either field name: a bucket whose
\* "results" is absent, null or an empty list but whose "result" holds tagged results
\* contributes those rows.
C10_EitherFieldName ==
    Formatted =>
        LET expected == TaggedFromEither(DataOf(usage))
        IN  /\ Len(rows) = Len(expected)
            /\ \A k \in 1..Len(rows) : k <= Len(expected) => ShowsCounts(rows[k], expected[k])

\* C10 as amended: "result" is read only when "results" is absent or null: such a
\* bucket contributes the rows of the tagged results of "result"; a bucket whose
\* "results" is a list contributes the rows of "results" alone, so none when that list
\* is empty, whatever "result" holds.
C10_ResultOnlyWhenResultsMissing ==
    Formatted =>
        /\ Len(rows) = Len(TaggedOfData(DataOf(usage)))
        /\ \A j \in 1..Len(DataOf(usage)) :
            LET b   == DataOf(usage)[j]
                own == RowsOfBucket(j)
            IN  /\ (b.results.t \in {"absent", "null"} /\ b.result.t = "list") =>
                      /\ Len(own) = Len(Tagged(b.result.v))
                      /\ \A k \in 1..Len(own) : ShowsCounts(own[k], Tagged(b.result.v)[k])
                /\ (b.results.t = "list") =>
                      /\ Len(own) = Len(Tagged(b.results.v))
                      /\ \A k \in 1..Len(own) : ShowsCounts(own[k], Tagged(b.results.v)[k])
                /\ (b.results.t = "list" /\ b.results.v = <<>>) => own = <<>>

C10_Witness ==
    /\ Formatted /\ Len(DataOf(usage)) = 2
    /\ LET b == DataOf(usage)[1]
       IN  /\ b.results.t = "null" /\ b.result.t = "list" /\ Len(Tagged(b.result.v)) = 1
           /\ Len(RowsOfBucket(1)) = 1
    /\ LET b == DataOf(usage)[2]
       IN  /\ b.results.t = "list" /\ b.results.v = <<>>
           /\ b.result.t = "list" /\ Len(Tagged(b.result.v)) = 1
    /\ Len(rows) = 1

====
